---- MODULE Spec2Model ----
(***************************************************************************)
(* tipyconv: the TI Python AppVar codec of src/tipyconv.h.                 *)
(*                                                                         *)
(* State machine of one conversion: a record is constructed                *)
(* (ti_pyfile_new_with_metadata_full), serialised (ti_pyfile_dump), the    *)
(* byte buffer is possibly altered in storage or transfer, and the buffer  *)
(* is decoded (ti_pyfile_parse).  A record may be handed to                *)
(* ti_pyfile_valid and a buffer to ti_is_appvar.  Bytes are the integers   *)
(* 0..255, a buffer is a sequence of bytes (index i of the C code is       *)
(* element i+1), a NULL pointer is the value NULL.                         *)
(***************************************************************************)
EXTENDS Integers, Sequences, FiniteSets, Bags, TLC

VARIABLES
    pc,             \* position of the calling program
    charSigned,     \* whether plain `char` is signed in this build
    args,           \* the constructor that was called and its arguments
    rec,            \* the Ti_PyFile built by the constructor
    buf,            \* the byte buffer (*dest of ti_pyfile_dump, data of ti_pyfile_parse)
    tamper,         \* what happened to the buffer between dump and parse
    pres,           \* *pres written by ti_pyfile_parse
    parsed,         \* the Ti_PyFile returned by ti_pyfile_parse
    checksum,       \* last value returned by _ti_pyfile_get_checksum
    cksum_len,      \* the `len` argument of that call
    file_checksum,  \* ti_pyfile_parse: the stored checksum word it read
    src_start,      \* ti_pyfile_parse: offset of the source
    src_len,        \* ti_pyfile_parse: length of the source (u16)
    oob,            \* ti_pyfile_parse read a byte at an index >= len
    printed,        \* ti_pyfile_parse wrote to stdout
    valid,          \* the value returned by ti_pyfile_valid
    is_appvar,      \* the value returned by ti_is_appvar
    heap            \* the buffers the records point to: allocated, released

vars == <<pc, charSigned, args, rec, buf, tamper, pres, parsed, checksum,
          cksum_len, file_checksum, src_start, src_len, oob, printed, valid,
          is_appvar, heap>>

----------------------------------------------------------------------------
(* Bounds of the model *)

MaxSrcLen == 2
MaxNameLen == 1

----------------------------------------------------------------------------
(* Program constants *)

VAR_NAME_SZ == 8
FILE_INFO_SZ == 42
U8Mod == 256
U16Mod == 65536
U16Max == 65535

FILE_HEADER == <<42, 42, 84, 73, 56, 51, 70, 42, 26, 10, 0>>

TI_PARSE_OK == "TI_PARSE_OK"
TI_PARSE_ERROR == "TI_PARSE_ERROR"
TI_INVALID_FORMAT == "TI_INVALID_FORMAT"
TI_CHECKSUM_INCORRECT == "TI_CHECKSUM_INCORRECT"

NULL == <<-1>>

Zeros(n) == [i \in 1..n |-> 0]

----------------------------------------------------------------------------
(* Helpers of the C code *)

\* BSWORD(w): the two bytes of a 16-bit word, low byte first
BSWORD(w) == <<w % U8Mod, (w \div U8Mod) % U8Mod>>

\* _ti_pyfile_get_word: (u16)((u8)data[0] | (u8)data[1] << 8)
_ti_pyfile_get_word(data) == (data[1] + data[2] * U8Mod) % U16Mod

\* index of the first NUL of s in lo..hi, hi+1 when there is none; s holds n
\* bytes and an index past n is the terminator of a C string
FirstNul(s, n, lo, hi) ==
    LET nuls == {i \in lo..hi : i > n \/ s[i] = 0}
    IN IF nuls = {} THEN hi + 1
       ELSE CHOOSE i \in nuls : \A j \in nuls : i <= j

\* strncpy(dst, s, n) into a dst of n bytes: the bytes of s up to its first
\* NUL, then zero bytes up to n
strncpy(s, n) ==
    LET k == FirstNul(s, Len(s), 1, n)
    IN SubSeq(s, 1, k - 1) \o Zeros(n - (k - 1))

\* the number of bytes strncpy(dst, s, n) reads from s
strncpy_reads(s, n) ==
    LET k == FirstNul(s, Len(s), 1, n)
    IN IF k <= n THEN k ELSE n

\* strlen(s) of a string whose buffer holds the bytes s and a terminator
strlen(s) == FirstNul(s, Len(s), 1, Len(s)) - 1

\* sum of the unsigned values of data[lo .. hi] (C indices); the sum of a
\* function's values is the cardinality of the bag with these counts
SumBytes(data, lo, hi) ==
    IF lo > hi THEN 0
    ELSE BagCardinality([i \in lo..hi |-> data[i + 1] + 1]) - (hi - lo + 1)

\* sum of data[lo .. hi] as the loop `sum += data[i]` adds them: data is a
\* `char*`, so a byte >= 0x80 is the negative value b - 256 where char is signed
SumChars(data, lo, hi, signed) ==
    IF signed
    THEN SumBytes(data, lo, hi)
         - 256 * Cardinality({i \in lo..hi : data[i + 1] >= 128})
    ELSE SumBytes(data, lo, hi)

\* a checksum that weights every byte with its position in the summed range
checksum_weighted(data, len, signed) ==
    (IF len - 1 < 55 THEN 0
     ELSE BagCardinality([i \in 55..(len - 1) |-> (i - 54) * data[i + 1] + 1])
          - (len - 55)) % U16Mod

\* a checksum loop that starts one byte late, at 0x38
checksum_from_0x38(data, len, signed) ==
    SumChars(data, 56, len - 1, signed) % U16Mod

\* _ti_pyfile_get_checksum(data, len): u32 sum of data[0x37 .. len-1], low 16
\* bits.  The u32 accumulator wraps modulo 2^32, a multiple of 2^16, so the
\* low 16 bits are the integer sum modulo 2^16.
_ti_pyfile_get_checksum(data, len, signed) ==
    SumChars(data, 55, len - 1, signed) % U16Mod

----------------------------------------------------------------------------
(* Constructors *)

ti_pyfile_new_invalid ==
    [src |-> NULL, file_name |-> NULL, src_len |-> 0, file_name_len |-> 0,
     file_info |-> Zeros(FILE_INFO_SZ), var_name |-> Zeros(VAR_NAME_SZ)]

PYFILE == <<80, 89, 70, 73, 76, 69>>

\* a constructor that takes a NULL src for the empty source
new_full_null_as_empty(src, srclen, file_name, file_name_len, file_info, var_name) ==
    [src |-> IF src = NULL THEN <<>> ELSE strncpy(src, srclen),
     src_len |-> IF src = NULL THEN 0 ELSE srclen,
     file_name |-> IF file_name # NULL
                   THEN strncpy(file_name, file_name_len) ELSE NULL,
     file_name_len |-> file_name_len,
     var_name |-> IF var_name # NULL
                  THEN strncpy(var_name, VAR_NAME_SZ)
                  ELSE strncpy(PYFILE, VAR_NAME_SZ),
     file_info |-> IF file_info # NULL
                   THEN strncpy(file_info, FILE_INFO_SZ)
                   ELSE Zeros(FILE_INFO_SZ)]

\* a constructor that keeps the last byte of var_name as a terminator
new_full_terminated(src, srclen, file_name, file_name_len, file_info, var_name) ==
    IF src = NULL THEN ti_pyfile_new_invalid
    ELSE [src |-> strncpy(src, srclen),
          src_len |-> srclen,
          file_name |-> IF file_name # NULL
                        THEN strncpy(file_name, file_name_len) ELSE NULL,
          file_name_len |-> file_name_len,
          var_name |-> IF var_name # NULL
                       THEN strncpy(var_name, VAR_NAME_SZ - 1) \o <<0>>
                       ELSE strncpy(PYFILE, VAR_NAME_SZ),
          file_info |-> IF file_info # NULL
                        THEN strncpy(file_info, FILE_INFO_SZ)
                        ELSE Zeros(FILE_INFO_SZ)]

ti_pyfile_new_with_metadata_full(src, srclen, file_name, file_name_len, file_info, var_name) ==
    IF src = NULL THEN ti_pyfile_new_invalid
    ELSE [src |-> strncpy(src, srclen),
          src_len |-> srclen,
          file_name |-> IF file_name # NULL
                        THEN strncpy(file_name, file_name_len) ELSE NULL,
          file_name_len |-> file_name_len,
          var_name |-> IF var_name # NULL
                       THEN strncpy(var_name, VAR_NAME_SZ)
                       ELSE strncpy(PYFILE, VAR_NAME_SZ),
          file_info |-> IF file_info # NULL
                        THEN strncpy(file_info, FILE_INFO_SZ)
                        ELSE Zeros(FILE_INFO_SZ)]

\* ti_pyfile_new(src, src_len, var_name): src_len is a usize here and is
\* converted to the u16 parameter of ti_pyfile_new_with_metadata_full
ti_pyfile_new(src, srclen, var_name) ==
    ti_pyfile_new_with_metadata_full(src, srclen % U16Mod, NULL, 0, NULL, var_name)

\* ti_pyfile_new_with_metadata: `u16 src_len = strlen(src)` and
\* `u8 file_name_len = strlen(file_name)` keep the low bits of the lengths
ti_pyfile_new_with_metadata(src, file_name, file_info, var_name) ==
    IF src = NULL THEN ti_pyfile_new_invalid
    ELSE ti_pyfile_new_with_metadata_full(
             src, strlen(src) % U16Mod, file_name,
             IF file_name # NULL THEN strlen(file_name) % U8Mod ELSE 0,
             file_info, var_name)

\* ti_pyfile_valid(f): !memcmp(f, &(Ti_PyFile){0}, sizeof(Ti_PyFile)).  The
\* struct ends in padding bytes whose values the language leaves open;
\* pad_equal says whether they compare equal.
ti_pyfile_valid(f, pad_equal) == f = ti_pyfile_new_invalid /\ pad_equal

\* ti_is_appvar(data): memcmp(data, FILE_HEADER, 1) != 0; data0 is data[0]
ti_is_appvar(data0) == data0 # FILE_HEADER[1]

\* the buffers a record can own: src and file_name of the constructed record
\* and of the record ti_pyfile_parse builds
Bufs == {"rec.src", "rec.file_name", "parsed.src", "parsed.file_name"}

\* free(p) of a buffer in state st; the second free of a buffer is recorded
released(st) ==
    IF st = "live" THEN "freed"
    ELSE IF st = "freed" THEN "freed_twice"
    ELSE st

\* ti_pyfile_free(f) on the heap h, src and file_name naming the buffers f
\* points to: free(f->file_name) and free(f->src) when they are not NULL;
\* the pointers are left as they are
ti_pyfile_free(f, h, src, file_name) ==
    [h EXCEPT ![file_name] = IF f.file_name # NULL THEN released(@) ELSE @,
              ![src] = IF f.src # NULL THEN released(@) ELSE @]

----------------------------------------------------------------------------
(* Encoder *)

PYCD == <<80, 89, 67, 68>>

\* a payload without the NUL that ends the header of the sub-block
dump_payload_no_nul(f) ==
    PYCD
    \o (IF f.file_name # NULL
        THEN <<f.file_name_len, 1>> \o SubSeq(f.file_name, 1, f.file_name_len)
        ELSE <<>>)
    \o SubSeq(f.src, 1, f.src_len)

\* a payload that has the length byte and the SOH byte also without file name
dump_payload_always_soh(f) ==
    PYCD
    \o (IF f.file_name # NULL
        THEN <<f.file_name_len, 1>> \o SubSeq(f.file_name, 1, f.file_name_len)
        ELSE <<0, 1>>)
    \o <<0>>
    \o SubSeq(f.src, 1, f.src_len)

_ti_pyfile_dump_payload(f) ==
    PYCD
    \o (IF f.file_name # NULL
        THEN <<f.file_name_len, 1>> \o SubSeq(f.file_name, 1, f.file_name_len)
        ELSE <<>>)
    \o <<0>>
    \o SubSeq(f.src, 1, f.src_len)

\* u16 dsize = 24 + src_len; if (file_name) dsize += file_name_len + 2
dsize_of(f) ==
    LET d0 == (24 + f.src_len) % U16Mod
    IN IF f.file_name # NULL THEN (d0 + f.file_name_len + 2) % U16Mod ELSE d0

\* u16 psize = (u16)payload.len + 2
psize_of(payload_len) == ((payload_len % U16Mod) + 2) % U16Mod

\* an encoder that writes the var id after the var name
dump_body_swapped(f) ==
    LET payload == _ti_pyfile_dump_payload(f)
        psize == psize_of(Len(payload))
    IN FILE_HEADER
       \o f.file_info
       \o BSWORD(dsize_of(f))
       \o <<13, 0>>
       \o BSWORD(psize)
       \o f.var_name
       \o <<21>>
       \o <<0, 0>>
       \o BSWORD(psize)
       \o BSWORD((psize - 2) % U16Mod)
       \o payload

\* the buffer of ti_pyfile_dump before the checksum is appended
dump_body(f) ==
    LET payload == _ti_pyfile_dump_payload(f)
        psize == psize_of(Len(payload))
    IN FILE_HEADER
       \o f.file_info
       \o BSWORD(dsize_of(f))
       \o <<13, 0>>
       \o BSWORD(psize)
       \o <<21>>
       \o f.var_name
       \o <<0, 0>>
       \o BSWORD(psize)
       \o BSWORD((psize - 2) % U16Mod)
       \o payload

ti_pyfile_dump(f, signed) ==
    LET res == dump_body(f)
        ck == _ti_pyfile_get_checksum(res, Len(res), signed)
    IN res \o BSWORD(ck)

----------------------------------------------------------------------------
(* Decoder *)

MaxOf(S) == CHOOSE x \in S : \A y \in S : y <= x

\* a decoder that hands the parsed record back on a checksum mismatch
parse_return_keep(ck, fck, res) == res

\* the record ti_pyfile_parse returns once both checksums are known: on a
\* mismatch src and file_name are freed and the invalid record is returned
parse_return(ck, fck, res) ==
    IF ck # fck THEN ti_pyfile_new_invalid ELSE res

\* ti_pyfile_parse(data, len, pres) for a non-NULL data.  A read of data[i]
\* with i >= len is out of the buffer; `fill` is the byte such a read finds.
\* `allocs` tells whether the call reaches its calloc / check_alloc, and
\* `named` whether it allocates a file_name.
ti_pyfile_parse(data, len, fill, signed) ==
    LET Data(i) == IF i < len THEN data[i + 1] ELSE fill
        \* the bytes of data[off .. off+n-1] that lie inside the buffer
        Inside(off, n) ==
            IF off >= len \/ n = 0 THEN <<>>
            ELSE SubSeq(data, off + 1, IF off + n <= len THEN off + n ELSE len)
        \* strncpy(dst, &data[off], n): what dst holds afterwards
        Copied(off, n) ==
            LET in == Inside(off, n)
                m == Len(in)
                k == FirstNul(in, m, 1, m)
            IN IF k <= m THEN SubSeq(in, 1, k - 1) \o Zeros(n - (k - 1))
               ELSE in \o [i \in 1..(n - m) |-> fill]
        \* strncpy(dst, &data[off], n): the number of bytes it reads
        Reads(off, n) ==
            LET in == Inside(off, n)
                m == Len(in)
                k == FirstNul(in, m, 1, m)
            IN IF k <= m THEN k
               ELSE IF m < n /\ fill = 0 THEN m + 1
               ELSE n
        \* memcmp(&data[0], FILE_HEADER, 1)
        header_ok == Data(0) = FILE_HEADER[1]
        len0 == (_ti_pyfile_get_word(<<Data(72), Data(73)>>) - 5) % U16Mod
        has_name == Data(78) # 0
        file_name_len == Data(78)
        start == IF has_name THEN 80 + file_name_len ELSE 79
        slen == IF has_name THEN (len0 - (1 + file_name_len)) % U16Mod ELSE len0
        ck == _ti_pyfile_get_checksum(data, len - 2, signed)
        fck == _ti_pyfile_get_word(<<Data(start + slen), Data(start + slen + 1)>>)
        res == [src |-> Copied(start, slen),
                src_len |-> slen,
                file_name |-> IF has_name THEN Copied(80, file_name_len)
                              ELSE NULL,
                file_name_len |-> IF has_name THEN file_name_len ELSE 0,
                file_info |-> Copied(11, FILE_INFO_SZ),
                var_name |-> Copied(60, VAR_NAME_SZ)]
        reads == {0, 73, 78, start + slen + 1,
                  11 + Reads(11, FILE_INFO_SZ) - 1,
                  60 + Reads(60, VAR_NAME_SZ) - 1}
                 \cup (IF has_name /\ file_name_len > 0
                       THEN {80 + Reads(80, file_name_len) - 1} ELSE {})
                 \cup (IF slen > 0 THEN {start + Reads(start, slen) - 1} ELSE {})
    IN IF ~header_ok
       THEN [reached |-> FALSE, allocs |-> FALSE, named |-> FALSE,
             pres |-> TI_INVALID_FORMAT,
             ret |-> ti_pyfile_new_invalid, oob |-> (0 >= len),
             wraps |-> FALSE, printed |-> FALSE,
             checksum |-> 0, cksum_len |-> 0, file_checksum |-> 0,
             src_start |-> 0, src_len |-> 0]
       ELSE IF len < 2
       \* len - 2 wraps around as usize: the checksum loop runs off the buffer
       THEN [reached |-> FALSE, allocs |-> TRUE, named |-> FALSE,
             pres |-> "none",
             ret |-> ti_pyfile_new_invalid, oob |-> TRUE,
             wraps |-> TRUE, printed |-> FALSE,
             checksum |-> 0, cksum_len |-> 0, file_checksum |-> 0,
             src_start |-> 0, src_len |-> 0]
       ELSE [reached |-> TRUE, allocs |-> TRUE, named |-> has_name,
             pres |-> IF ck # fck THEN TI_CHECKSUM_INCORRECT ELSE TI_PARSE_OK,
             ret |-> parse_return(ck, fck, res),
             oob |-> (MaxOf(reads) >= len),
             wraps |-> FALSE, printed |-> (ck # fck),
             checksum |-> ck, cksum_len |-> len - 2, file_checksum |-> fck,
             src_start |-> start, src_len |-> slen]

\* ti_pyfile_parse(NULL, len, pres)
ti_pyfile_parse_null ==
    [pres |-> TI_PARSE_ERROR, ret |-> ti_pyfile_new_invalid]

----------------------------------------------------------------------------
(* Inputs *)

SrcBytes == {0, 65, 128}
NameBytes == {102}
OobBytes == {0, 42}

SeqsUpTo(S, n) == UNION {[1..k -> S] : k \in 0..n}

PrintOne == <<112, 114, 105, 110, 116, 40, 49, 41>>
DEMO == <<68, 69, 77, 79>>
LongVarName == <<76, 79, 78, 71, 78, 65, 77, 69, 49, 48>>
SomeInfo == <<72, 105>>
\* every short source with every kind of file name
SmallInputs ==
    [src : SeqsUpTo(SrcBytes, MaxSrcLen),
     file_name : {NULL} \cup SeqsUpTo(NameBytes, MaxNameLen),
     file_info : {NULL}, var_name : {DEMO}]

\* the kinds of metadata
MetaInputs ==
    [src : {<<65>>}, file_name : {NULL, <<102>>},
     file_info : {NULL, SomeInfo},
     var_name : {NULL, DEMO, LongVarName}]

ScenarioInput ==
    [src |-> PrintOne, file_name |-> NULL, file_info |-> NULL, var_name |-> DEMO]

\* var_name and file_info of exactly 8 and 42 bytes, of more, and empty
Name8 == <<69, 73, 71, 72, 84, 76, 69, 78>>
Info42 == [i \in 1..42 |-> 96 + ((i - 1) % 26) + 1]
Info44 == [i \in 1..44 |-> 64 + ((i - 1) % 26) + 1]
PadInputs ==
    [src : {<<65>>}, file_name : {NULL},
     file_info : {Info42, Info44}, var_name : {<<>>, Name8, LongVarName}]

\* a NULL source
NullInput ==
    [src |-> NULL, file_name |-> NULL, file_info |-> NULL, var_name |-> DEMO]

Inputs ==
    SmallInputs \cup MetaInputs \cup PadInputs \cup {ScenarioInput, NullInput}

\* records whose source is as long as the u16 src_len allows, or nearly
BigLens == (U16Max - 7)..U16Max
BigInputs ==
    [src : {[i \in 1..n |-> 65] \o <<>> : n \in BigLens},
     file_name : {NULL, <<>>, <<102>>},
     file_info : {NULL}, var_name : {NULL}]

\* strings longer than the u16 src_len and the u8 file_name_len can hold
As(n) == [i \in 1..n |-> 65] \o <<>>
OversizedSrcLens == {U16Mod, U16Mod + 1, U16Mod + 8}
OversizedNameLens == {U8Mod, U8Mod + 1}
PlainInputs ==
    [src : {NULL} \cup {As(n) : n \in {8} \cup OversizedSrcLens},
     file_name : {NULL}, file_info : {NULL}, var_name : {DEMO}]
StringInputs ==
    [src : {NULL} \cup {As(n) : n \in {8, U16Mod + 1}},
     file_name : {NULL, <<102>>}
                 \cup {[i \in 1..n |-> 102] : n \in OversizedNameLens},
     file_info : {NULL}, var_name : {NULL}]

\* offsets and values an altered byte is given
TamperOffsets == {0, 5, 11, 60, 72, 78, 79}
TamperBytes == {0, 1, 43, 255}
TruncLens == {0, 1, 10, 11, 64, 79}

----------------------------------------------------------------------------
(* Actions *)

NoCall ==
    [ctor |-> "none", src |-> NULL, file_name |-> NULL, file_info |-> NULL,
     var_name |-> NULL]

Call(ctor, in) ==
    [ctor |-> ctor, src |-> in.src, file_name |-> in.file_name,
     file_info |-> in.file_info, var_name |-> in.var_name]

Init ==
    /\ pc = "start"
    /\ charSigned \in BOOLEAN
    /\ args = NoCall
    /\ rec = ti_pyfile_new_invalid
    /\ buf = <<>>
    /\ tamper = "none"
    /\ pres = "none"
    /\ parsed = ti_pyfile_new_invalid
    /\ checksum = 0
    /\ cksum_len = -1
    /\ file_checksum = 0
    /\ src_start = 0
    /\ src_len = 0
    /\ oob = FALSE
    /\ printed = FALSE
    /\ valid = FALSE
    /\ is_appvar = FALSE
    /\ heap = [b \in Bufs |-> "none"]

\* the call of the constructor: the u16 src_len and u8 file_name_len
\* parameters take the lengths of the caller's strings
Construct(in) ==
    ti_pyfile_new_with_metadata_full(
        in.src, Len(in.src) % U16Mod,
        in.file_name,
        IF in.file_name = NULL THEN 0 ELSE Len(in.file_name) % U8Mod,
        in.file_info, in.var_name)

\* a constructor call with arguments `call` that returns r when its
\* allocations succeed; check_alloc ends the process when calloc fails,
\* which a call with a NULL src does not reach
Constructed(call, r) ==
    /\ args' = call
    /\ \E alloc_ok \in BOOLEAN :
         IF call.src = NULL
         THEN alloc_ok /\ rec' = r /\ pc' = "failed" /\ heap' = heap
         ELSE IF alloc_ok
         THEN /\ rec' = r
              /\ pc' = "built"
              /\ heap' = [heap EXCEPT
                            !["rec.src"] = "live",
                            !["rec.file_name"] =
                                IF call.file_name # NULL THEN "live" ELSE @]
         ELSE rec' = rec /\ pc' = "exited" /\ heap' = heap
    /\ UNCHANGED <<charSigned, buf, tamper, pres, parsed, checksum, cksum_len,
                   file_checksum, src_start, src_len, oob, printed, valid,
                   is_appvar>>

New ==
    /\ pc = "start"
    /\ \E in \in Inputs : Constructed(Call("full", in), Construct(in))

NewBig ==
    /\ pc = "start"
    /\ \E in \in BigInputs : Constructed(Call("full", in), Construct(in))

\* ti_pyfile_new called with the length of the source
NewPlain ==
    /\ pc = "start"
    /\ \E in \in PlainInputs :
         Constructed(Call("new", in),
                     ti_pyfile_new(in.src, Len(in.src), in.var_name))

\* ti_pyfile_new_with_metadata called with NUL-terminated strings
NewWithMetadata ==
    /\ pc = "start"
    /\ \E in \in StringInputs :
         Constructed(Call("with_metadata", in),
                     ti_pyfile_new_with_metadata(in.src, in.file_name,
                                                 in.file_info, in.var_name))

\* ti_pyfile_dump; the vector's calloc / realloc may fail, and check_alloc
\* then ends the process
Dump ==
    /\ pc = "built"
    /\ \E alloc_ok \in BOOLEAN :
         IF alloc_ok
         THEN /\ buf' = ti_pyfile_dump(rec, charSigned)
              /\ cksum_len' = Len(buf') - 2
              /\ checksum' = _ti_pyfile_get_checksum(buf', cksum_len', charSigned)
              /\ pc' = "dumped"
         ELSE /\ pc' = "exited"
              /\ UNCHANGED <<buf, cksum_len, checksum>>
    /\ UNCHANGED <<charSigned, args, rec, tamper, pres, parsed, file_checksum,
                   src_start, src_len, oob, printed, valid, is_appvar, heap>>

Altered(kind) ==
    /\ tamper' = kind
    /\ pc' = "altered"
    /\ UNCHANGED <<charSigned, args, rec, pres, parsed, checksum, cksum_len,
                   file_checksum, src_start, src_len, oob, printed, valid,
                   is_appvar, heap>>

\* the final checksum byte is changed
FlipChecksum ==
    /\ pc = "dumped"
    /\ \E v \in {(buf[Len(buf)] + 1) % U8Mod, 255 - buf[Len(buf)]} :
         buf' = [buf EXCEPT ![Len(buf)] = v]
    /\ Altered("flip")

\* one byte of the header or payload is changed
SetByte ==
    /\ pc = "dumped"
    /\ \E i \in TamperOffsets, v \in TamperBytes :
         /\ buf[i + 1] # v
         /\ buf' = [buf EXCEPT ![i + 1] = v]
    /\ Altered("set")

\* the buffer is cut short
Truncate ==
    /\ pc = "dumped"
    /\ \E n \in TruncLens \cup {Len(buf) - 2, Len(buf) - 1} :
         buf' = SubSeq(buf, 1, n)
    /\ Altered("truncate")

\* bytes follow the checksum field
AppendTrailing ==
    /\ pc = "dumped"
    /\ \E v \in {0, 65} : buf' = Append(buf, v)
    /\ Altered("append")

\* the buffers of a ti_pyfile_parse call with result r that returns: src and,
\* with a file name block, file_name are allocated, and both are freed again
\* when the checksums differ
parse_heap(h, r) ==
    LET after == IF r.pres = TI_CHECKSUM_INCORRECT THEN "freed" ELSE "live"
    IN IF ~r.reached THEN h
       ELSE [h EXCEPT !["parsed.src"] = after,
                      !["parsed.file_name"] = IF r.named THEN after ELSE @]

\* ti_pyfile_parse(buf, Len(buf), &pres): it returns, or a read outside the
\* buffer faults, or a calloc fails and check_alloc ends the process
Parse ==
    /\ pc \in {"dumped", "altered"}
    /\ \E fill \in OobBytes, end \in {"return", "crash", "exit"} :
         LET r == ti_pyfile_parse(buf, Len(buf), fill, charSigned)
         IN /\ (fill # 0 => r.oob)
            /\ (end = "crash" => r.oob)
            /\ (end = "exit" => r.allocs)
            /\ (r.wraps => end # "return")
            /\ oob' = r.oob
            /\ IF end # "return"
               THEN /\ pc' = IF end = "crash" THEN "crashed" ELSE "exited"
                    /\ UNCHANGED <<pres, parsed, checksum, cksum_len,
                                   file_checksum, src_start, src_len, printed,
                                   heap>>
               ELSE /\ pc' = "parsed"
                    /\ pres' = r.pres
                    /\ parsed' = r.ret
                    /\ printed' = r.printed
                    /\ heap' = parse_heap(heap, r)
                    /\ IF r.reached
                       THEN /\ checksum' = r.checksum
                            /\ cksum_len' = r.cksum_len
                            /\ file_checksum' = r.file_checksum
                            /\ src_start' = r.src_start
                            /\ src_len' = r.src_len
                       ELSE UNCHANGED <<checksum, cksum_len, file_checksum,
                                        src_start, src_len>>
    /\ UNCHANGED <<charSigned, args, rec, buf, tamper, valid, is_appvar>>

\* ti_pyfile_parse called with data = NULL
ParseNull ==
    /\ pc = "start"
    /\ pres' = ti_pyfile_parse_null.pres
    /\ parsed' = ti_pyfile_parse_null.ret
    /\ pc' = "parsed_null"
    /\ UNCHANGED <<charSigned, args, rec, buf, tamper, checksum, cksum_len,
                   file_checksum, src_start, src_len, oob, printed, valid,
                   is_appvar, heap>>

\* ti_pyfile_free applied to the constructed record (as py_to_appvar does
\* after the dump) or to the parsed record, once or again.  Freeing a buffer
\* a second time is undefined: the allocator may end the process.
Free ==
    /\ pc \in {"failed", "dumped", "parsed", "freed_rec", "freed_parsed"}
    /\ LET on_parsed == pc \in {"parsed", "freed_parsed"}
           h == IF on_parsed
                THEN ti_pyfile_free(parsed, heap, "parsed.src", "parsed.file_name")
                ELSE ti_pyfile_free(rec, heap, "rec.src", "rec.file_name")
           twice == \E b \in Bufs : h[b] = "freed_twice" /\ heap[b] = "freed"
       IN /\ heap' = h
          /\ \E abort \in BOOLEAN :
               /\ abort => twice
               /\ pc' = IF abort THEN "crashed"
                        ELSE IF on_parsed THEN "freed_parsed" ELSE "freed_rec"
    /\ UNCHANGED <<charSigned, args, rec, buf, tamper, pres, parsed, checksum,
                   cksum_len, file_checksum, src_start, src_len, oob, printed,
                   valid, is_appvar>>

\* ti_pyfile_valid applied to the record a constructor or ti_pyfile_parse
\* returned
Valid ==
    /\ pc \in {"built", "failed", "parsed"}
    /\ \E pad_equal \in BOOLEAN :
         valid' = ti_pyfile_valid(IF pc = "parsed" THEN parsed ELSE rec,
                                  pad_equal)
    /\ pc' = IF pc = "parsed" THEN "valid_parse" ELSE "valid_ctor"
    /\ UNCHANGED <<charSigned, args, rec, buf, tamper, pres, parsed, checksum,
                   cksum_len, file_checksum, src_start, src_len, oob, printed,
                   is_appvar, heap>>

\* main's fallback format detection: ti_is_appvar applied to the contents of
\* the input file; for an empty file data[0] is whatever follows the buffer
IsAppvar ==
    /\ pc \in {"dumped", "altered"}
    /\ \E fill \in OobBytes :
         /\ Len(buf) > 0 => fill = 0
         /\ is_appvar' = ti_is_appvar(IF Len(buf) > 0 THEN buf[1] ELSE fill)
    /\ pc' = "detected"
    /\ UNCHANGED <<charSigned, args, rec, buf, tamper, pres, parsed, checksum,
                   cksum_len, file_checksum, src_start, src_len, oob, printed,
                   valid, heap>>

Next ==
    \/ New
    \/ Dump
    \/ FlipChecksum
    \/ SetByte
    \/ Truncate
    \/ AppendTrailing
    \/ Parse
    \/ ParseNull

Spec == Init /\ [][Next]_vars

\* the same program when it also asks ti_pyfile_valid about the records and
\* ti_is_appvar about the buffers
NextApi ==
    \/ Next
    \/ Valid
    \/ IsAppvar

SpecApi == Init /\ [][NextApi]_vars

\* the conversions with the ti_pyfile_free calls that end them
NextFree ==
    \/ New
    \/ Dump
    \/ FlipChecksum
    \/ Parse
    \/ Free

SpecFree == Init /\ [][NextFree]_vars

\* the same program on records at the 16-bit limit of the source length, and
\* on strings beyond the limits of the length fields
NextBig ==
    \/ NewBig
    \/ NewPlain
    \/ NewWithMetadata
    \/ Dump
    \/ Parse

SpecBig == Init /\ [][NextBig]_vars

----------------------------------------------------------------------------
(* The format as the specification states it, for the properties below *)

Signature == <<42, 42, 84, 73, 56, 51, 70, 42, 26, 10, 0>>

\* little-endian 16-bit word at offset off of b
WordAt(b, off) == b[off + 1] + 256 * b[off + 2]

\* sum of the unsigned byte values of b at offsets lo .. hi
RECURSIVE ByteSum(_, _, _)
ByteSum(b, lo, hi) ==
    IF lo > hi THEN 0
    ELSE IF lo = hi THEN b[lo + 1]
    ELSE LET mid == (lo + hi) \div 2
         IN ByteSum(b, lo, mid) + ByteSum(b, mid + 1, hi)

\* checksum of section 4.3: low 16 bits of the sum over [0x37, end)
SpecChecksum(b, end) == ByteSum(b, 55, end - 1) % 65536

\* the PYCD sub-block of section 4.2
SpecPayload(r) ==
    <<80, 89, 67, 68>>
    \o (IF r.file_name # NULL
        THEN <<r.file_name_len, 1>> \o r.file_name ELSE <<>>)
    \o <<0>>
    \o r.src

HasSignature(b) == Len(b) >= 11 /\ SubSeq(b, 1, 11) = Signature

\* the buffer is the unaltered result of ti_pyfile_dump(rec)
Fresh == tamper = "none"

ScenarioRec ==
    [src |-> PrintOne, src_len |-> 8, file_name |-> NULL, file_name_len |-> 0,
     file_info |-> Zeros(42), var_name |-> DEMO \o <<0, 0, 0, 0>>]

----------------------------------------------------------------------------
(* Properties *)

\* C1: round trip.  Parsing the buffer dumped from a record reports
\* TI_PARSE_OK and returns the record's source bytes, source length and
\* var_name.
C1_RoundTrip ==
    (pc = "parsed" /\ Fresh) =>
        /\ pres = TI_PARSE_OK
        /\ parsed.src = rec.src
        /\ parsed.src_len = rec.src_len
        /\ parsed.var_name = rec.var_name

C3_SignatureCheck ==
    pc = "parsed" => (pres = TI_INVALID_FORMAT <=> ~HasSignature(buf))

\* the buffer is cut short or its length fields disagree (C4)
StructuralFailure(b) ==
    \/ Len(b) < 79
    \/ LET inner == WordAt(b, 72)
           fnl == b[79]
           start == IF fnl # 0 THEN 80 + fnl ELSE 79
           slen == inner - 5 - (IF fnl # 0 THEN 1 + fnl ELSE 0)
       IN \/ inner < 5
          \/ fnl # 0 /\ inner < 6 + fnl
          \/ Len(b) < start + slen + 2

\* C4: structural failures.  A buffer that has the signature but is truncated
\* or has inconsistent length fields makes parsing return TI_PARSE_ERROR.
C4_StructuralFailure ==
    (pc = "parsed" /\ HasSignature(buf) /\ StructuralFailure(buf)) =>
        pres = TI_PARSE_ERROR

\* the checksum routine has just been applied to buf
ChecksumTaken ==
    \/ pc = "dumped"
    \/ pc = "parsed" /\ pres \in {TI_PARSE_OK, TI_CHECKSUM_INCORRECT}

\* C5: checksum value.  For an end >= 0x37 the checksum routine returns the
\* sum of the unsigned values of the bytes 0x37 .. end-1 modulo 65536, also
\* when some of these bytes are >= 0x80.
C5_ChecksumValue ==
    (ChecksumTaken /\ cksum_len >= 55) =>
        checksum = ByteSum(buf, 55, cksum_len - 1) % 65536

\* C6: encoder checksum placement.  The last two bytes of a dumped buffer are
\* the little-endian checksum of the bytes 0x37 .. len-3, the checksum's own
\* bytes not being summed.
C6_ChecksumPlacement ==
    pc = "dumped" =>
        WordAt(buf, Len(buf) - 2) = SpecChecksum(buf, Len(buf) - 2)

\* C7: decoder checksum range.  The stored checksum is the word right after
\* the source, and a buffer of any length >= end of source + 2 is accepted
\* exactly when that word is the checksum of [0x37, end of source): bytes after
\* the checksum field have no influence.  The checksum of the range is taken
\* with the routine of the build.
C7_DecoderChecksumRange ==
    (/\ pc = "parsed"
     /\ pres \in {TI_PARSE_OK, TI_CHECKSUM_INCORRECT}
     /\ Len(buf) >= src_start + src_len + 2) =>
        /\ file_checksum = WordAt(buf, src_start + src_len)
        /\ pres = TI_PARSE_OK <=>
             file_checksum
               = _ti_pyfile_get_checksum(buf, src_start + src_len, charSigned)

\* C8 as stated: the scenario record "print(1)" / "DEMO" dumps to a buffer
\* of 90 bytes that starts with the signature, and parses back.
C8_Scenario90 ==
    (rec = ScenarioRec /\ Fresh /\ pc \in {"dumped", "parsed"}) =>
        /\ HasSignature(buf)
        /\ Len(buf) = 90
        /\ pc = "parsed" =>
             /\ parsed.src = PrintOne
             /\ parsed.var_name = DEMO \o <<0, 0, 0, 0>>

\* C8 amended: the scenario record "print(1)" / "DEMO" dumps to a buffer of
\* 89 bytes that starts with the signature, and parsing that buffer gives the
\* source "print(1)" and the var_name "DEMO" followed by four zero bytes.
C8_Scenario89 ==
    (rec = ScenarioRec /\ Fresh /\ pc \in {"dumped", "parsed"}) =>
        /\ HasSignature(buf)
        /\ Len(buf) = 89
        /\ pc = "parsed" =>
             /\ pres = TI_PARSE_OK
             /\ parsed.src = PrintOne
             /\ parsed.var_name = DEMO \o <<0, 0, 0, 0>>

C8_Witness == rec = ScenarioRec /\ Fresh /\ pc = "parsed"

\* C9: encoder layout.  A dumped buffer has the signature at 0x00, the comment
\* at 0x0B, 0D 00 at 0x37, 15 at 0x3B, the var_name at 0x3C, two zero bytes at
\* 0x44, "PYCD" at 0x4A, and the payload sub-block from 0x4A followed only by
\* the two checksum bytes.
C9_EncoderLayout ==
    pc = "dumped" =>
        /\ Len(buf) >= 81
        /\ SubSeq(buf, 1, 11) = Signature
        /\ SubSeq(buf, 12, 53) = rec.file_info
        /\ SubSeq(buf, 56, 57) = <<13, 0>>
        /\ buf[60] = 21
        /\ SubSeq(buf, 61, 68) = rec.var_name
        /\ SubSeq(buf, 69, 70) = <<0, 0>>
        /\ SubSeq(buf, 75, 78) = <<80, 89, 67, 68>>
        /\ SubSeq(buf, 75, Len(buf) - 2) = SpecPayload(rec)

C9_Witness ==
    /\ pc = "dumped"
    /\ rec.file_name # NULL
    /\ rec.src_len > 0
    /\ rec.file_info # Zeros(42)

\* C10: size-field duplication.  In a dumped buffer the words at 0x39 and 0x46
\* both hold payload_len + 2 and the word at 0x48 holds payload_len, the
\* number of bytes of the payload sub-block written at 0x4A.
C10_SizeFields ==
    pc = "dumped" =>
        LET payload_len == Len(buf) - 74 - 2
        IN /\ WordAt(buf, 57) = payload_len + 2
           /\ WordAt(buf, 70) = payload_len + 2
           /\ WordAt(buf, 72) = payload_len

\* C11: data_size field.  In a dumped buffer the word at 0x35 is 24 + source
\* length for a record without file name and 24 + source length + file name
\* length + 2 for a record with one, which is the number of bytes between
\* offset 0x37 and the checksum field, buffer length - 57.
C11_DataSize ==
    pc = "dumped" =>
        /\ WordAt(buf, 53)
             = 24 + rec.src_len
                  + (IF rec.file_name # NULL THEN rec.file_name_len + 2 ELSE 0)
        /\ WordAt(buf, 53) = Len(buf) - 57

\* values a probed byte is given (C12)
ProbeBytes == {0, 1, 127, 128, 255}

\* b with every byte outside the offsets lo .. hi replaced by v
OutsideReplaced(b, lo, hi, v) ==
    [i \in 1..Len(b) |-> IF i - 1 \in lo..hi THEN b[i] ELSE v]

\* C12: checksum determinism.  The checksum depends on the bytes 0x37 ..
\* end-1 only: a buffer with other bytes outside that range (all of them, or
\* the one right before or right after the range) has the same checksum, and
\* a buffer that differs in exactly one byte inside the range has a different
\* checksum.
C12_ChecksumDeterminism ==
    (ChecksumTaken /\ cksum_len >= 55) =>
        /\ \A v \in ProbeBytes :
             _ti_pyfile_get_checksum(
                 OutsideReplaced(buf, 55, cksum_len - 1, v), cksum_len,
                 charSigned) = checksum
        /\ \A i \in {54, cksum_len} \cap (0..(Len(buf) - 1)), v \in ProbeBytes :
             _ti_pyfile_get_checksum(
                 [buf EXCEPT ![i + 1] = v], cksum_len, charSigned) = checksum
        /\ \A i \in 55..(cksum_len - 1) : \A v \in ProbeBytes \ {buf[i + 1]} :
             _ti_pyfile_get_checksum(
                 [buf EXCEPT ![i + 1] = v], cksum_len, charSigned) # checksum

C12_Witness ==
    /\ pc = "parsed"
    /\ pres = TI_PARSE_OK
    /\ charSigned
    /\ cksum_len > 55
    /\ \E i \in 55..(cksum_len - 1) : buf[i + 1] >= 128

\* the first n bytes of a string of n or more bytes, a shorter string followed
\* by zero bytes up to n (C13)
Stored(str, n) ==
    IF Len(str) >= n THEN SubSeq(str, 1, n)
    ELSE str \o [i \in 1..(n - Len(str)) |-> 0]

\* C13: truncation and padding at construction.  Whatever the lengths of the
\* var_name and file_info strings, ti_pyfile_new_with_metadata_full returns a
\* populated record whose var_name is the first 8 bytes of a name of 8 or
\* more bytes and otherwise the name followed by zero bytes up to 8, and
\* whose comment is the file_info string cut or zero-padded to 42 bytes.
C13_TruncatePad ==
    (pc = "built" /\ args.ctor = "full") =>
        /\ rec.src # NULL
        /\ Len(rec.var_name) = 8
        /\ Len(rec.file_info) = 42
        /\ args.var_name # NULL => rec.var_name = Stored(args.var_name, 8)
        /\ args.file_info # NULL => rec.file_info = Stored(args.file_info, 42)

C13_Witness ==
    /\ pc = "built"
    /\ args.ctor = "full"
    /\ args.var_name # NULL
    /\ Len(args.var_name) = 10
    /\ args.file_info # NULL
    /\ Len(args.file_info) = 44

\* C14: file name optionality.  The buffer dumped from a record without file
\* name has the 0x00 terminator at 0x4E, right after "PYCD", no SOH byte, and
\* the source from 0x4F up to the checksum field; parsing that buffer gives a
\* record with file_name NULL and file_name_len 0.
C14_NoFileName ==
    (pc \in {"dumped", "parsed"} /\ Fresh /\ rec.file_name = NULL) =>
        /\ SubSeq(buf, 75, 79) = <<80, 89, 67, 68, 0>>
        /\ Len(buf) = 79 + rec.src_len + 2
        /\ SubSeq(buf, 80, 79 + rec.src_len) = rec.src
        /\ pc = "parsed" =>
             /\ parsed.file_name = NULL
             /\ parsed.file_name_len = 0

C14_Witness ==
    /\ pc = "parsed"
    /\ Fresh
    /\ rec.file_name = NULL
    /\ rec.src_len > 0
    /\ pres = TI_PARSE_OK
    /\ parsed.src = rec.src

\* the source or the file name of a constructor call is longer than the
\* u16 src_len / u8 file_name_len can hold (C15)
Oversized(call) ==
    \/ call.src # NULL /\ Len(call.src) > U16Max
    \/ call.file_name # NULL /\ Len(call.file_name) > 255

\* C15: oversized input.  ti_pyfile_new and ti_pyfile_new_with_metadata
\* called with a source of more than 65535 bytes or a file name of more than
\* 255 bytes return the invalid record, never a populated record whose
\* src_len or file_name_len is the length modulo 2^16 or 2^8.
C15_OversizedRejected ==
    (/\ pc \notin {"start", "exited"}
     /\ args.ctor \in {"new", "with_metadata"}
     /\ Oversized(args)) =>
        rec = ti_pyfile_new_invalid

\* C16: ti_pyfile_valid.  It returns false for the invalid record, which is
\* what a failed constructor and a failed ti_pyfile_parse return, and true
\* for the record of a successful constructor or a successful ti_pyfile_parse.
C16_ValidIffValid ==
    /\ pc = "valid_ctor" => (valid <=> rec # ti_pyfile_new_invalid)
    /\ pc = "valid_parse" =>
         /\ valid <=> parsed # ti_pyfile_new_invalid
         /\ valid <=> pres = TI_PARSE_OK

\* C17: ti_is_appvar.  It returns true exactly for the buffers that begin
\* with the 11-byte signature: true for every dumped buffer, false for a
\* buffer whose first byte is not 0x2A.
C17_IsAppvarIffSignature ==
    pc = "detected" => (is_appvar <=> HasSignature(buf))

\* C18: errors as values.  No call of a constructor, of ti_pyfile_dump or of
\* ti_pyfile_parse ends the process: every failure, an allocation failure
\* included, comes back to the caller in the returned record, result code or
\* return value.
C18_ErrorsAsValues == pc \notin {"exited", "crashed"}

\* C19: decoder purity.  ti_pyfile_parse leaves the input buffer unchanged
\* and writes nothing to any output stream, whatever its outcome.
C19_DecoderPure == [][Parse => buf' = buf /\ ~printed']_vars

\* C20: file name block agreement.  For a record with a file name (also an
\* empty one) the dumped payload is "PYCD", the file name length, 0x01, the
\* file name, one 0x00, the source; and parsing that buffer puts the start of
\* the source at the offset where the first source byte was written,
\* 0x51 + file name length, and returns the record's file name, source bytes
\* and source length.
C20_FileNameBlock ==
    (pc \in {"dumped", "parsed"} /\ Fresh /\ rec.file_name # NULL) =>
        /\ SubSeq(buf, 75, Len(buf) - 2)
             = <<80, 89, 67, 68, rec.file_name_len, 1>> \o rec.file_name
               \o <<0>> \o rec.src
        /\ pc = "parsed" =>
             /\ pres = TI_PARSE_OK
             /\ src_start = 81 + rec.file_name_len
             /\ parsed.file_name = rec.file_name
             /\ parsed.file_name_len = rec.file_name_len
             /\ parsed.src = rec.src
             /\ parsed.src_len = rec.src_len

\* C21: the source is length-delimited.  For a source of declared length n,
\* also one with 0x00 bytes before position n, the constructor stores all n
\* bytes, ti_pyfile_dump writes them as the last n bytes before the checksum
\* field, and ti_pyfile_parse of that buffer returns them: nothing stops at
\* an embedded 0x00 or zeroes the bytes after it.
C21_LengthDelimited ==
    (/\ pc \in {"built", "dumped", "parsed"}
     /\ Fresh
     /\ args.ctor = "full"
     /\ Len(args.src) <= U16Max) =>
        /\ rec.src_len = Len(args.src)
        /\ rec.src = args.src
        /\ pc \in {"dumped", "parsed"} =>
             SubSeq(buf, Len(buf) - 1 - Len(args.src), Len(buf) - 2) = args.src
        /\ pc = "parsed" => parsed.src = args.src

\* C22: verbatim metadata on decode.  For every buffer ti_pyfile_parse
\* accepts, the returned comment is the 42 bytes of the buffer from 0x0B and
\* the returned var_name is the 8 bytes from 0x3C, byte for byte, also when
\* a 0x00 among them is followed by non-zero bytes.
C22_VerbatimMetadata ==
    (pc = "parsed" /\ pres = TI_PARSE_OK /\ Len(buf) >= 68) =>
        /\ parsed.file_info = SubSeq(buf, 12, 53)
        /\ parsed.var_name = SubSeq(buf, 61, 68)

\* b with the bytes at offsets i and j exchanged
Swapped(b, i, j) == [b EXCEPT ![i + 1] = b[j + 1], ![j + 1] = b[i + 1]]

\* the checksum routine has just been applied to an unaltered dumped buffer
FreshChecksum == ChecksumTaken /\ Fresh /\ cksum_len >= 57

\* C23 as stated: the checksum is order-sensitive.  Exchanging two bytes of
\* different value at two positions of the summed range changes the checksum
\* returned for the buffer.
C23_OrderSensitive ==
    FreshChecksum =>
        \A i \in 55..(cksum_len - 1) : \A j \in (i + 1)..(cksum_len - 1) :
            buf[i + 1] # buf[j + 1] =>
                _ti_pyfile_get_checksum(Swapped(buf, i, j), cksum_len,
                                        charSigned) # checksum

\* C23 amended: the checksum is not order-sensitive.  Exchanging the bytes at
\* any two positions of the summed range leaves the checksum returned for
\* the buffer unchanged.
C23_OrderInsensitive ==
    FreshChecksum =>
        \A i \in 55..(cksum_len - 1) : \A j \in (i + 1)..(cksum_len - 1) :
            _ti_pyfile_get_checksum(Swapped(buf, i, j), cksum_len,
                                    charSigned) = checksum

C23_Witness ==
    /\ FreshChecksum
    /\ pc = "parsed"
    /\ charSigned
    /\ \E i \in 55..(cksum_len - 1) : \E j \in (i + 1)..(cksum_len - 1) :
         buf[i + 1] >= 128 /\ buf[j + 1] < 128 /\ buf[j + 1] > 0

\* C24: decoder memory safety.  For a buffer of any length and content,
\* every index ti_pyfile_parse reads is smaller than len, the len - 2 it
\* uses as the end of the checksum does not underflow, and so no read
\* faults.
C24_DecoderMemorySafe == ~oob /\ pc # "crashed"

\* ti_pyfile_parse of buf fails: the first byte is not that of the signature
\* or the stored and the computed checksum differ (C25)
ParseFailed == Len(buf) = 0 \/ buf[1] # 42 \/ checksum # file_checksum

\* C25: sentinel if and only if failure.  A constructor returns the all-zero
\* invalid record exactly when src is NULL, and ti_pyfile_parse exactly when
\* data is NULL, the signature is rejected or the checksums differ; then the
\* result code is not TI_PARSE_OK and no buffer of the call is left
\* allocated.  A successful return has a non-NULL, allocated src, and a
\* successful parse writes TI_PARSE_OK.
C25_SentinelIffFailure ==
    /\ pc \in {"built", "failed"} =>
         /\ rec = ti_pyfile_new_invalid <=> args.src = NULL
         /\ args.src = NULL =>
              heap["rec.src"] # "live" /\ heap["rec.file_name"] # "live"
         /\ args.src # NULL => rec.src # NULL /\ heap["rec.src"] = "live"
    /\ pc = "parsed" =>
         /\ parsed = ti_pyfile_new_invalid <=> ParseFailed
         /\ ParseFailed =>
              /\ pres # TI_PARSE_OK
              /\ heap["parsed.src"] # "live"
              /\ heap["parsed.file_name"] # "live"
         /\ ~ParseFailed =>
              /\ pres = TI_PARSE_OK
              /\ parsed.src # NULL
              /\ heap["parsed.src"] = "live"
    /\ pc = "parsed_null" =>
         parsed = ti_pyfile_new_invalid /\ pres # TI_PARSE_OK

C25_Witness ==
    /\ pc = "parsed"
    /\ pres = TI_CHECKSUM_INCORRECT
    /\ parsed = ti_pyfile_new_invalid
    /\ heap["parsed.src"] = "freed"
    /\ heap["parsed.file_name"] = "freed"
    /\ args.src # NULL
    /\ rec.src # NULL

\* C26: no 16-bit wraparound in the size fields.  For a record with a source
\* of at most 65535 bytes and a file name of at most 255 bytes, the sums
\* 24 + source length [+ file name length + 2] and payload length + 2 do not
\* exceed 65535, and the words dumped at 0x35, 0x39, 0x46 and 0x48 are these
\* quantities themselves, not their residues modulo 65536.
C26_NoWraparound ==
    (pc = "dumped" /\ rec.src_len <= U16Max /\ rec.file_name_len <= 255) =>
        LET name_block == IF rec.file_name # NULL
                          THEN rec.file_name_len + 2 ELSE 0
            true_dsize == 24 + rec.src_len + name_block
            true_payload == 5 + rec.src_len + name_block
        IN /\ true_dsize <= U16Max
           /\ true_payload + 2 <= U16Max
           /\ WordAt(buf, 53) = true_dsize
           /\ WordAt(buf, 57) = true_payload + 2
           /\ WordAt(buf, 70) = true_payload + 2
           /\ WordAt(buf, 72) = true_payload

\* C27: buffer ownership.  Over any sequence of constructor, dump, parse and
\* ti_pyfile_free calls no buffer of a record is released more than once:
\* ti_pyfile_free on the invalid record releases nothing, and a second
\* ti_pyfile_free on a record that was freed already releases nothing.
C27_ReleasedAtMostOnce ==
    /\ \A b \in Bufs : heap[b] # "freed_twice"
    /\ (pc = "freed_rec" /\ rec = ti_pyfile_new_invalid) =>
         \A b \in Bufs : heap[b] = "none"
    /\ (pc = "freed_parsed" /\ parsed = ti_pyfile_new_invalid) =>
         heap["parsed.src"] # "live" /\ heap["rec.src"] = "live"

====
